---------------------------- MODULE Spec2Model ----------------------------
(***************************************************************************)
(* Model of maxdefense.hh: the 0/1 knapsack solvers dynamic_max_defense    *)
(* and exhaustive_max_defense over a catalog of armor items, together      *)
(* with sum_armor_vector.                                                  *)
(*                                                                         *)
(* Number representations.                                                 *)
(*  - double: a binary floating-point number with MantBits significant     *)
(*    bits and round-to-nearest-even (53 bits in the build).  Values are   *)
(*    written as integers; an integer is representable when it has at most *)
(*    MantBits significant bits.  Every double operation of the code       *)
(*    (+, -) is the exact result rounded by Round.                         *)
(*  - int: a two's complement integer of IntBits bits (32 in the build).   *)
(*    Signed overflow and a shift by IntBits or more are undefined         *)
(*    behaviour; the model enumerates the outcomes builds produce.         *)
(*  An ArmorVector element is a shared pointer to an item of the catalog;  *)
(*  it is modelled by the item's 0-based position in the catalog.          *)
(***************************************************************************)
EXTENDS Integers, Sequences, FiniteSets, TLC

\* ------------------------------------------------------------- bounds
\* Longest catalog whose items are drawn freely.
MaxN == 4
\* Budgets are drawn from 0..MaxBudget.
MaxBudget == 4
\* Significant bits of a double (scaled down from 53).
MantBits == 2
\* Width of int in bits (scaled down from 32).
IntBits == 6

\* ------------------------------------------------- program constants
\* assert(n < 64) in exhaustive_max_defense.
AssertLimit == 64

VARIABLES
    armors,        \* the catalog: a sequence of [cost, defense]
    total_cost,    \* the budget argument
    pc,            \* where the call is
    matrix,        \* dynamic: the 2D cache, matrix[i][j]
    n,             \* dynamic: the prefix index of the backward walk
    maxcost,       \* dynamic: the remaining budget of the backward walk
    matrixValue,   \* dynamic: the residual defense of the backward walk
    result,        \* dynamic: the returned ArmorVector (catalog positions)
    bits,          \* exhaustive: the mask counter
    best,          \* exhaustive: the best candidate so far (catalog positions)
    best_defense   \* exhaustive: its defense

vars == <<armors, total_cost, pc, matrix, n, maxcost, matrixValue, result,
          bits, best, best_defense>>

\* ------------------------------------------------------------ numbers
RECURSIVE Pow2(_)
Pow2(k) == IF k <= 0 THEN 1 ELSE 2 * Pow2(k - 1)

\* The exponent of x > 0: the largest e with 2^e <= x.
RECURSIVE Exponent(_)
Exponent(x) == IF x < 2 THEN 0 ELSE 1 + Exponent(x \div 2)

\* x >= 0 rounded to MantBits significant bits, ties to even.
RoundMag(x) ==
    IF x < Pow2(MantBits) THEN x
    ELSE LET q   == Pow2(Exponent(x) - MantBits + 1)
             m   == x \div q
             rem == x - m * q
         IN  IF 2 * rem < q THEN m * q
             ELSE IF 2 * rem > q THEN (m + 1) * q
             ELSE IF m % 2 = 0 THEN m * q ELSE (m + 1) * q

\* The double nearest to the exact value x.
Round(x) == IF x < 0 THEN -RoundMag(-x) ELSE RoundMag(x)

\* double + double and double - double.
FAdd(a, b) == Round(a + b)
FSub(a, b) == Round(a - b)

FMax(a, b) == IF a < b THEN b ELSE a

IntMax == Pow2(IntBits - 1) - 1
IntMin == -Pow2(IntBits - 1)

\* ------------------------------------------------------------- inputs
\* The (cost, defense) pairs catalog items are drawn from: costs are positive
\* ints, defenses are non-negative doubles (0 included).
Items ==
    {[cost |-> 1, defense |-> 0], [cost |-> 1, defense |-> 1],
     [cost |-> 1, defense |-> 2], [cost |-> 1, defense |-> 3],
     [cost |-> 2, defense |-> 2]}

\* The item every long catalog repeats; no budget affords it.
FillerItem == [cost |-> MaxBudget + 1, defense |-> 1]

RECURSIVE SeqsUpTo(_, _)
SeqsUpTo(S, k) ==
    IF k = 0 THEN {<<>>}
    ELSE LET shorter == SeqsUpTo(S, k - 1)
         IN  shorter \cup {Append(s, x) : s \in {t \in shorter : Len(t) = k - 1}, x \in S}

\* Catalogs up to MaxN items are drawn freely; longer ones, up to one item past
\* the assertion's limit, repeat FillerItem (they exercise the mask counter).
Catalogs ==
    SeqsUpTo(Items, MaxN)
      \cup {[k \in 1..len |-> FillerItem] : len \in (MaxN + 1)..(AssertLimit + 1)}

Budgets == 0..MaxBudget

\* armors.at(j) / armors[j], j 0-based.
At(cat, j) == cat[j + 1]


\* ---------------------------------------------------- sum_armor_vector
\* total_cost of sum_armor_vector: the int sum of the costs, in vector order.
RECURSIVE SumCost(_, _)
SumCost(cat, v) ==
    IF v = <<>> THEN 0
    ELSE SumCost(cat, SubSeq(v, 1, Len(v) - 1)) + At(cat, v[Len(v)]).cost

\* total_defense of sum_armor_vector: the double sum of the defenses, added
\* one at a time in vector order, each addition rounded.
RECURSIVE SumDefense(_, _)
SumDefense(cat, v) ==
    IF v = <<>> THEN 0
    ELSE FAdd(SumDefense(cat, SubSeq(v, 1, Len(v) - 1)), At(cat, v[Len(v)]).defense)

\* -------------------------------------------------- dynamic_max_defense
\* std::vector::at / operator[] on a vector modelled as a sequence, k 0-based.
VAt(v, k) == v[k + 1]

\* Cell with the affordability test written j > cost: an item that costs the
\* whole column is never taken.
CellStrictAfford(cat, m, i, j) ==
    IF i = 0 \/ j = 0 THEN 0
    ELSE IF j > At(cat, i - 1).cost
         THEN LET back == j - At(cat, i - 1).cost
              IN  FMax(FAdd(At(cat, i - 1).defense, VAt(VAt(m, i - 1), back)),
                       VAt(VAt(m, i - 1), j))
         ELSE VAt(VAt(m, i - 1), j)

\* The value pushed to row i at column j (the body of the inner for loop);
\* m holds rows 0..i-1.
Cell(cat, m, i, j) ==
    IF i = 0 \/ j = 0 THEN 0
    ELSE IF j >= At(cat, i - 1).cost
         THEN LET back == j - At(cat, i - 1).cost
                  elem == FMax(FAdd(At(cat, i - 1).defense, VAt(VAt(m, i - 1), back)),
                               VAt(VAt(m, i - 1), j))
              IN  elem
         ELSE VAt(VAt(m, i - 1), j)

\* The inner for loop from column j on: v1.push_back of each cell of row i.
RECURSIVE BuildRow(_, _, _, _, _, _)
BuildRow(cat, budget, m, i, j, v1) ==
    IF j > budget THEN v1
    ELSE BuildRow(cat, budget, m, i, j + 1, Append(v1, Cell(cat, m, i, j)))

\* The outer for loop from row i on: matrix.push_back of each row.
RECURSIVE BuildRows(_, _, _, _)
BuildRows(cat, budget, i, m) ==
    IF i > Len(cat) THEN m
    ELSE BuildRows(cat, budget, i + 1, Append(m, BuildRow(cat, budget, m, i, 0, <<>>)))

\* The 2D cache: row i, column j is VAt(VAt(Matrix(cat, budget), i), j),
\* i in 0..Len(cat), j in 0..budget.
Matrix(cat, budget) == BuildRows(cat, budget, 0, <<>>)

\* WalkCond stopping one prefix early: item 0 is never examined.
WalkCondSkipsFirst(mv, k) == mv # 0 /\ k > 1

\* The condition of the while loop of the backward walk.
WalkCond(mv, k) == mv # 0 /\ k # 0

\* The test of the if statement inside the walk: item k-1 was taken.
Taken(m, k, c) == VAt(VAt(m, k), c) # VAt(VAt(m, k - 1), c)

\* WalkBody without maxcost = maxcost - cost: a taken item is not charged.
WalkBodyNoCharge(cat, m, w) ==
    IF VAt(VAt(m, w.n), w.maxcost) # VAt(VAt(m, w.n - 1), w.maxcost)
    THEN [n           |-> w.n - 1,
          maxcost     |-> w.maxcost,
          matrixValue |-> FSub(w.matrixValue, At(cat, w.n - 1).defense),
          result      |-> Append(w.result, w.n - 1)]
    ELSE [w EXCEPT !.n = w.n - 1]

\* One iteration of the while loop on the walk's state
\* w = [n, maxcost, matrixValue, result].
WalkBody(cat, m, w) ==
    IF Taken(m, w.n, w.maxcost)
    THEN [n           |-> w.n - 1,
          maxcost     |-> w.maxcost - At(cat, w.n - 1).cost,
          matrixValue |-> FSub(w.matrixValue, At(cat, w.n - 1).defense),
          result      |-> Append(w.result, w.n - 1)]
    ELSE [w EXCEPT !.n = w.n - 1]

\* The walk's state when the while loop is entered.
WalkStart(cat, budget, m) ==
    [n           |-> Len(cat),
     maxcost     |-> budget,
     matrixValue |-> VAt(VAt(m, Len(cat)), budget),
     result      |-> <<>>]

RECURSIVE WalkLoop(_, _, _)
WalkLoop(cat, m, w) ==
    IF WalkCond(w.matrixValue, w.n) THEN WalkLoop(cat, m, WalkBody(cat, m, w)) ELSE w

\* The ArmorVector dynamic_max_defense returns.
dynamic_max_defense(cat, budget) ==
    LET m == Matrix(cat, budget)
    IN  WalkLoop(cat, m, WalkStart(cat, budget, m)).result

\* ----------------------------------------------- exhaustive_max_defense
\* AssertHolds written n <= 64.
AssertHoldsInclusive(len) == len <= AssertLimit

\* assert(n < 64): the call goes on only when it holds.
AssertHolds(len) == len < AssertLimit

\* bits < pow(2, n): both sides are exact doubles.  An int is at most IntMax,
\* so the comparison is true whenever 2^n exceeds IntMax.
LoopCond(b, len) == IF len >= IntBits - 1 THEN TRUE ELSE b < Pow2(len)

\* What a build does with a shift by IntBits or more, which is undefined:
\* it uses the low bits of the shift count, or it shifts everything out and
\* leaves the sign.
ShiftModes == {"count_masked", "sign_fill"}

\* (b >> j) & 1.  For 0 <= j < IntBits it is bit j of the two's complement of
\* b (an arithmetic shift); for j >= IntBits it is what the build's mode gives.
ShiftBit(b, j, mode) ==
    IF j < IntBits THEN (b \div Pow2(j)) % 2
    ELSE IF mode = "count_masked" THEN (b \div Pow2(j % IntBits)) % 2
    ELSE IF b < 0 THEN 1 ELSE 0

\* The candidate the inner for loop builds for mask b: the items j with
\* ((b >> j) & 1) == 1, in increasing j.
CandidateIn(len, b, mode) ==
    LET Set(j) == ShiftBit(b, j, mode) = 1
    IN  SelectSeq([k \in 1..len |-> k - 1], Set)

\* The candidates the builds can produce for mask b.
Candidates(len, b) == {CandidateIn(len, b, mode) : mode \in ShiftModes}

\* The candidate of mask b when no shift is undefined (len <= IntBits).
Candidate(len, b) == CandidateIn(len, b, "count_masked")

\* Replaces with the budget test written <: a candidate that spends the whole
\* budget is refused.
ReplacesBelowBudget(cat, budget, cand, bestDef) ==
    /\ SumCost(cat, cand) < budget
    /\ SumDefense(cat, cand) > bestDef

\* Replaces without the budget test.
ReplacesIgnoresCost(cat, budget, cand, bestDef) ==
    SumDefense(cat, cand) > bestDef

\* Replaces with the budget test written ==: only a candidate that spends
\* the whole budget is kept.
ReplacesExactSpend(cat, budget, cand, bestDef) ==
    /\ SumCost(cat, cand) = budget
    /\ SumDefense(cat, cand) > bestDef

\* Replaces with the defense test written >=: a tie replaces the best so far.
ReplacesOnTie(cat, budget, cand, bestDef) ==
    /\ SumCost(cat, cand) <= budget
    /\ SumDefense(cat, cand) >= bestDef

\* The two nested tests that let a candidate replace the best so far:
\* total_gold_cost <= total_cost, then best == nullptr || cand_defense >
\* best_defense.  best is allocated before the loop, so it is never nullptr.
Replaces(cat, budget, cand, bestDef) ==
    /\ SumCost(cat, cand) <= budget
    /\ (FALSE \/ SumDefense(cat, cand) > bestDef)

\* One iteration of the for loop, without the increment, on
\* e = [best, best_defense].
EnumBody(cat, budget, cand, e) ==
    IF Replaces(cat, budget, cand, e.best_defense)
    THEN [best |-> cand, best_defense |-> SumDefense(cat, cand)]
    ELSE e

\* The loop from mask b on, for a catalog the counter can enumerate.
RECURSIVE EnumLoop(_, _, _, _)
EnumLoop(cat, budget, b, e) ==
    IF LoopCond(b, Len(cat))
    THEN EnumLoop(cat, budget, b + 1, EnumBody(cat, budget, Candidate(Len(cat), b), e))
    ELSE e

\* The ArmorVector exhaustive_max_defense returns, for a catalog whose masks
\* the counter enumerates without overflow.
exhaustive_max_defense(cat, budget) ==
    EnumLoop(cat, budget, 0, [best |-> <<>>, best_defense |-> 0]).best

\* ------------------------------------------------------------- actions
Init ==
    /\ armors \in Catalogs
    /\ total_cost \in Budgets
    /\ pc = "idle"
    /\ matrix = <<>>
    /\ n = 0
    /\ maxcost = 0
    /\ matrixValue = 0
    /\ result = <<>>
    /\ bits = 0
    /\ best = <<>>
    /\ best_defense = 0

\* dynamic_max_defense up to the while loop: the cache is built and the walk
\* starts at (n, maxcost) = (armors.size(), total_cost).
CallDynamic ==
    /\ pc = "idle"
    /\ LET m == Matrix(armors, total_cost)
           w == WalkStart(armors, total_cost, m)
       IN  /\ matrix' = m
           /\ n' = w.n
           /\ maxcost' = w.maxcost
           /\ matrixValue' = w.matrixValue
           /\ result' = w.result
    /\ pc' = "walk"
    /\ UNCHANGED <<armors, total_cost, bits, best, best_defense>>

\* One iteration of the while loop.
WalkStep ==
    /\ pc = "walk"
    /\ WalkCond(matrixValue, n)
    /\ LET w == WalkBody(armors, matrix,
                         [n |-> n, maxcost |-> maxcost,
                          matrixValue |-> matrixValue, result |-> result])
       IN  /\ n' = w.n
           /\ maxcost' = w.maxcost
           /\ matrixValue' = w.matrixValue
           /\ result' = w.result
    /\ UNCHANGED <<armors, total_cost, pc, matrix, bits, best, best_defense>>

\* The while loop's condition is false: return result.
DynamicReturn ==
    /\ pc = "walk"
    /\ ~WalkCond(matrixValue, n)
    /\ pc' = "dynamic_returned"
    /\ UNCHANGED <<armors, total_cost, matrix, n, maxcost, matrixValue, result,
                   bits, best, best_defense>>

\* exhaustive_max_defense up to the for loop: the assertion, then the
\* initialisation of best, best_defense and bits.
CallExhaustive ==
    /\ pc = "idle"
    /\ IF AssertHolds(Len(armors))
       THEN /\ pc' = "enum"
            /\ bits' = 0
            /\ best' = <<>>
            /\ best_defense' = 0
       ELSE /\ pc' = "assert_failed"
            /\ UNCHANGED <<bits, best, best_defense>>
    /\ UNCHANGED <<armors, total_cost, matrix, n, maxcost, matrixValue, result>>

\* One iteration of the for loop: build the candidate, sum it, keep it if it
\* is better, then bits++.  Incrementing IntMax is a signed overflow.
EnumStep ==
    /\ pc = "enum"
    /\ LoopCond(bits, Len(armors))
    /\ \E cand \in Candidates(Len(armors), bits) :
          LET e == EnumBody(armors, total_cost, cand,
                            [best |-> best, best_defense |-> best_defense])
          IN  /\ best' = e.best
              /\ best_defense' = e.best_defense
    /\ IF bits = IntMax
       THEN /\ pc' = "signed_overflow"
            /\ bits' = bits
       ELSE /\ pc' = "enum"
            /\ bits' = bits + 1
    /\ UNCHANGED <<armors, total_cost, matrix, n, maxcost, matrixValue, result>>

\* The outcomes of the overflowing bits++: the counter wraps to IntMin and the
\* loop goes on, or the increment traps and the program aborts.
OverflowWraps ==
    /\ pc = "signed_overflow"
    /\ bits' = IntMin
    /\ pc' = "enum"
    /\ UNCHANGED <<armors, total_cost, matrix, n, maxcost, matrixValue, result,
                   best, best_defense>>

OverflowTraps ==
    /\ pc = "signed_overflow"
    /\ pc' = "aborted"
    /\ UNCHANGED <<armors, total_cost, matrix, n, maxcost, matrixValue, result,
                   bits, best, best_defense>>

\* The for loop's condition is false: return best.
ExhaustiveReturn ==
    /\ pc = "enum"
    /\ ~LoopCond(bits, Len(armors))
    /\ pc' = "exhaustive_returned"
    /\ UNCHANGED <<armors, total_cost, matrix, n, maxcost, matrixValue, result,
                   bits, best, best_defense>>

Next ==
    \/ CallDynamic
    \/ WalkStep
    \/ DynamicReturn
    \/ CallExhaustive
    \/ EnumStep
    \/ OverflowWraps
    \/ OverflowTraps
    \/ ExhaustiveReturn

Spec == Init /\ [][Next]_vars

\* --------------------------------------------------- what the claims use
\* The feasible subsets of the first k items of the catalog, each listed in
\* catalog order (increasing position): cost <= budget.  Costs are positive, so
\* an infeasible vector has no feasible extension.
RECURSIVE FeasibleUpTo(_, _, _)
FeasibleUpTo(cat, budget, k) ==
    IF k = 0 THEN {<<>>}
    ELSE LET shorter == FeasibleUpTo(cat, budget, k - 1)
         IN  shorter \cup
             {Append(v, k - 1) : v \in {u \in shorter :
                                   SumCost(cat, u) + At(cat, k - 1).cost <= budget}}

Feasible(cat, budget) == FeasibleUpTo(cat, budget, Len(cat))

\* v is a 0/1 selection from the catalog: positions of the catalog, none twice.
IsSelection(cat, v) ==
    /\ \A k \in 1..Len(v) : v[k] \in 0..(Len(cat) - 1)
    /\ \A k, l \in 1..Len(v) : k # l => v[k] # v[l]

\* The catalogs whose masks the counter enumerates without overflow.
Enumerable(cat) == Len(cat) < IntBits - 1

\* v's mask: bit j is set for each position j of v.
RECURSIVE MaskOf(_)
MaskOf(v) == IF v = <<>> THEN 0 ELSE Pow2(v[Len(v)]) + MaskOf(SubSeq(v, 1, Len(v) - 1))

\* The exact (unrounded) sum of every defense value of the catalog.
RECURSIVE TotalDefense(_)
TotalDefense(cat) ==
    IF cat = <<>> THEN 0
    ELSE TotalDefense(SubSeq(cat, 1, Len(cat) - 1)) + cat[Len(cat)].defense

\* No double addition or subtraction on defenses of this catalog rounds: every
\* sum of its defenses is representable.
Exact(cat) == TotalDefense(cat) < Pow2(MantBits)

\* T[i][c] of the recurrence: T[0][c] = 0, T[i][0] = 0, T[i][c] = T[i-1][c] when
\* cost(item i-1) > c, otherwise max(T[i-1][c], benefit(item i-1) +
\* T[i-1][c - cost(item i-1)]), the addition being a double addition.
RECURSIVE TableT(_, _, _)
TableT(cat, i, c) ==
    IF i = 0 \/ c = 0 THEN 0
    ELSE IF At(cat, i - 1).cost > c THEN TableT(cat, i - 1, c)
    ELSE LET excl == TableT(cat, i - 1, c)
             incl == Round(At(cat, i - 1).defense + TableT(cat, i - 1, c - At(cat, i - 1).cost))
         IN  IF excl >= incl THEN excl ELSE incl

DynamicReturned == pc = "dynamic_returned"
ExhaustiveReturned == pc = "exhaustive_returned"

\* matrix[N][budget] of the finished call.
TableOptimum == VAt(VAt(matrix, Len(armors)), total_cost)

\* No item of the catalog is affordable.
NoneAffordable == \A k \in 1..Len(armors) : armors[k].cost > total_cost

\* ------------------------------------------------------------------ C1
\* C1 as stated: the aggregate defense (sum_armor_vector) of the vector either
\* solver returns is at least the aggregate defense of every feasible subset
\* of the catalog.
C1_Original ==
    /\ DynamicReturned =>
         \A S \in Feasible(armors, total_cost) :
             SumDefense(armors, S) <= SumDefense(armors, result)
    /\ ExhaustiveReturned =>
         \A S \in Feasible(armors, total_cost) :
             SumDefense(armors, S) <= SumDefense(armors, best)

\* C1 amended: the vector exhaustive_max_defense returns has an aggregate
\* defense at least that of every feasible subset (each summed in catalog
\* order); for dynamic_max_defense the cache entry matrix[N][budget] is at
\* least that of every feasible subset, and the aggregate of the returned
\* vector equals that entry when no defense sum of the catalog rounds.
C1_Optimal ==
    /\ ExhaustiveReturned =>
         \A S \in Feasible(armors, total_cost) :
             SumDefense(armors, S) <= SumDefense(armors, best)
    /\ DynamicReturned =>
         /\ \A S \in Feasible(armors, total_cost) :
                SumDefense(armors, S) <= TableOptimum
         /\ Exact(armors) => SumDefense(armors, result) = TableOptimum

\* A returned dynamic solution of two or more items, without rounding, that
\* beats some non-empty feasible subset.
C1_Witness ==
    /\ DynamicReturned
    /\ Exact(armors)
    /\ Len(result) >= 2
    /\ \E S \in Feasible(armors, total_cost) :
          /\ S # <<>>
          /\ SumDefense(armors, S) < SumDefense(armors, result)

\* ------------------------------------------------------------------ C2
\* C2: the vector either solver returns is a feasible 0/1 selection: catalog
\* positions, none twice, with summed cost <= budget.
C2_Feasible ==
    /\ DynamicReturned =>
         /\ IsSelection(armors, result)
         /\ SumCost(armors, result) <= total_cost
    /\ ExhaustiveReturned =>
         /\ IsSelection(armors, best)
         /\ SumCost(armors, best) <= total_cost

\* A returned dynamic solution that spends the whole budget on two or more
\* items and leaves a catalog item out.
C2_Witness ==
    /\ DynamicReturned
    /\ Len(result) >= 2
    /\ Len(result) < Len(armors)
    /\ SumCost(armors, result) = total_cost

\* ------------------------------------------------------------------ C3
\* C3 as stated: on a catalog the exhaustive solver enumerates, the aggregate
\* defense of the dynamic solver's vector equals exactly that of the
\* exhaustive solver's vector.
C3_Original ==
    DynamicReturned /\ Enumerable(armors) =>
        SumDefense(armors, result)
          = SumDefense(armors, exhaustive_max_defense(armors, total_cost))

\* C3 amended: the cache entry matrix[N][budget] equals exactly the aggregate
\* defense of the exhaustive solver's vector; the aggregate of the dynamic
\* solver's vector equals it too when no defense sum of the catalog rounds.
C3_Agree ==
    DynamicReturned /\ Enumerable(armors) =>
        LET ex == SumDefense(armors, exhaustive_max_defense(armors, total_cost))
        IN  /\ TableOptimum = ex
            /\ Exact(armors) => SumDefense(armors, result) = ex

\* Both solvers have a non-empty answer of positive defense on an
\* enumerable catalog without rounding.
C3_Witness ==
    /\ DynamicReturned
    /\ Enumerable(armors)
    /\ Exact(armors)
    /\ Len(result) >= 2
    /\ SumDefense(armors, exhaustive_max_defense(armors, total_cost)) >= 2

\* ------------------------------------------------------------------ C4
\* C4 as stated: the sum of the defenses of the items dynamic_max_defense
\* returns (sum_armor_vector) equals T[N][budget] of the recurrence.
C4_Original ==
    DynamicReturned =>
        SumDefense(armors, result) = TableT(armors, Len(armors), total_cost)

\* C4 amended: the cache entry matrix[N][budget] is T[N][budget] of the
\* recurrence, and the sum of the defenses of the returned items equals it
\* when no defense sum of the catalog rounds.
C4_MatchesTable ==
    DynamicReturned =>
        /\ TableOptimum = TableT(armors, Len(armors), total_cost)
        /\ Exact(armors) =>
             SumDefense(armors, result) = TableT(armors, Len(armors), total_cost)

\* A walk without rounding that skipped an item and took two, the first
\* item of the catalog among them.
C4_Witness ==
    /\ DynamicReturned
    /\ Exact(armors)
    /\ Len(result) >= 2
    /\ Len(result) < Len(armors)
    /\ result[Len(result)] = 0
    /\ TableOptimum > 0

\* ------------------------------------------------------------------ C5
\* C5: with a catalog of 64 or more items exhaustive_max_defense fails its
\* assertion before any subset is enumerated, and never returns.
C5_AssertFails ==
    Len(armors) >= AssertLimit =>
        /\ pc \notin {"enum", "signed_overflow", "aborted", "exhaustive_returned"}
        /\ pc = "assert_failed" => bits = 0 /\ best = <<>> /\ best_defense = 0

\* The call on a catalog of exactly 64 items has failed.
C5_Witness == pc = "assert_failed" /\ Len(armors) = AssertLimit

C7_Original ==
    /\ DynamicReturned =>
         \A b1 \in 0..total_cost :
             SumDefense(armors, dynamic_max_defense(armors, b1))
               <= SumDefense(armors, result)
    /\ ExhaustiveReturned =>
         \A b1 \in 0..total_cost :
             SumDefense(armors, exhaustive_max_defense(armors, b1))
               <= SumDefense(armors, best)

\* C7 as stated, for the dynamic solver, on the calls whose walks both ran
\* down to prefix 0.  It fails as well (catalog (1,2),(2,2),(1,3),(1,3) as
\* (cost, defense), budgets 3 and 4): rounding alone breaks C7, whatever the
\* walk's exit test.
C7_CompleteWalks ==
    DynamicReturned /\ n = 0 =>
        \A b1 \in 0..total_cost :
            LET m1 == Matrix(armors, b1)
                w1 == WalkLoop(armors, m1, WalkStart(armors, b1, m1))
            IN  w1.n = 0 =>
                  SumDefense(armors, w1.result) <= SumDefense(armors, result)

\* C7 amended: the exhaustive solver's aggregate never decreases when the
\* budget grows; for the dynamic solver the cache entry matrix[N][budget]
\* never decreases, and neither does the aggregate of the returned vector
\* when no defense sum of the catalog rounds.
C7_Monotone ==
    /\ ExhaustiveReturned =>
         \A b1 \in 0..total_cost :
             SumDefense(armors, exhaustive_max_defense(armors, b1))
               <= SumDefense(armors, best)
    /\ DynamicReturned =>
         \A b1 \in 0..total_cost :
             /\ VAt(VAt(Matrix(armors, b1), Len(armors)), b1) <= TableOptimum
             /\ Exact(armors) =>
                  SumDefense(armors, dynamic_max_defense(armors, b1))
                    <= SumDefense(armors, result)

\* The exhaustive solver returned strictly more for this budget than it
\* returns for a smaller positive one, which already buys something.
C7_Witness ==
    /\ ExhaustiveReturned
    /\ \E b1 \in 1..total_cost :
          LET less == SumDefense(armors, exhaustive_max_defense(armors, b1))
          IN  0 < less /\ less < SumDefense(armors, best)

\* ------------------------------------------------------------------ C8
\* C8 as stated: for every catalog of fewer than 64 items the mask counter
\* never overflows int: the increment never overflows, the program does not
\* abort, and the counter stays within 0..2^N.
C8_NoOverflow ==
    Len(armors) < AssertLimit =>
        /\ pc \notin {"signed_overflow", "aborted"}
        /\ pc = "enum" => bits >= 0
        /\ pc = "enum" /\ Enumerable(armors) => bits <= Pow2(Len(armors))

\* ------------------------------------------------------------------ C9
\* C9 as stated: the backward walk of dynamic_max_defense ends only when the
\* prefix index is 0.
C9_StopsOnlyAtZero == DynamicReturned => n = 0

\* ----------------------------------------------------------------- C10
\* C10: while exhaustive_max_defense enumerates and when it returns, best is
\* the feasible subset of maximal aggregate defense among the masks already
\* enumerated and, among those of that aggregate, the one of the smallest
\* mask: a later candidate replaced it only by being feasible and strictly
\* better.  It is empty when no enumerated feasible subset has a positive
\* aggregate.
C10_EarliestMask ==
    pc \in {"enum", "exhaustive_returned"} /\ Enumerable(armors) =>
        LET seen == {S \in Feasible(armors, total_cost) : MaskOf(S) < bits}
        IN  /\ bits > 0 => best \in seen
            /\ best_defense = SumDefense(armors, best)
            /\ \A S \in seen :
                  \/ SumDefense(armors, S) < SumDefense(armors, best)
                  \/ /\ SumDefense(armors, S) = SumDefense(armors, best)
                     /\ MaskOf(best) <= MaskOf(S)
            /\ (\A S \in seen : SumDefense(armors, S) = 0) => best = <<>>

\* The returned subset is non-empty and tied with a feasible subset of a
\* larger mask.
C10_Witness ==
    /\ ExhaustiveReturned
    /\ best # <<>>
    /\ \E S \in Feasible(armors, total_cost) :
          /\ S # best
          /\ SumDefense(armors, S) = SumDefense(armors, best)
          /\ MaskOf(S) > MaskOf(best)

=============================================================================
